---------------------------- MODULE Spec2Model ----------------------------
(***************************************************************************)
(* Kilog backend: the workout aggregate (Workout -> WorkoutExercise ->     *)
(* Set), the exercise catalog and the user rows they hang from, as the     *)
(* service layer under src/app/services reads and writes them through one  *)
(* SQLAlchemy session.                                                     *)
(*                                                                         *)
(* db   : the committed contents of the five tables.                       *)
(* view : what the session sees: db plus the session's pending changes.    *)
(* scope: "request" when every call runs in a session of its own, which    *)
(*        get_db closes when the call has returned or raised; "shared"     *)
(*        when a caller keeps one session for several calls.               *)
(* last : the outcome of the last service call, as its caller sees it.     *)
(* inflight: the requests that run while others do, each with a session of *)
(*        its own: what the session holds, or that the request has ended.  *)
(***************************************************************************)
EXTENDS Integers, Sequences, FiniteSets, TLC

VARIABLES db, view, scope, last, inflight

vars == <<db, view, scope, last, inflight>>

-----------------------------------------------------------------------------
(* Bounds of the model. *)

MaxExercises == 2
MaxWorkouts == 1
MaxExercisesPerWorkout == 2
MaxSessions == 2
MaxInFlight == 2

(* A nullable column holding NULL. *)
NULL == 0

UserIds == {1, 2}
Names == {"Bench Press", "Squat"}
NoCategory == "None"
Categories == {NoCategory, "Push"}
UNSET == "unset"
NoNotes == "None"

-----------------------------------------------------------------------------
(* Rows and tables. A table is the set of its rows. *)

Ids(table) == {r.id : r \in table}

Row(table, id) == CHOOSE r \in table : r.id = id

(* A primary key the store hands out: the first id no row of the table    *)
(* has.                                                                    *)
NextId(table) ==
    CHOOSE n \in 1..(Cardinality(table) + 1) :
        /\ n \notin Ids(table)
        /\ \A m \in 1..(n - 1) : m \in Ids(table)

Exercise(id, name, category, user_id) ==
    [id |-> id, name |-> name, category |-> category, user_id |-> user_id]

Workout(id, user_id, date, notes) ==
    [id |-> id, user_id |-> user_id, date |-> date, notes |-> notes]

WorkoutExercise(id, workout_id, exercise_id) ==
    [id |-> id, workout_id |-> workout_id, exercise_id |-> exercise_id]

Set(id, workout_exercise_id, data) ==
    [id |-> id, workout_exercise_id |-> workout_exercise_id,
     order |-> data.order, weight |-> data.weight, reps |-> data.reps,
     rpe |-> data.rpe]

(* An e-mail address: the part before the "@" and the part after it. *)
Email(local, domain) == <<local, domain>>

User(id, email, username, auth_id, last_login_at) ==
    [id |-> id, email |-> email, username |-> username, role |-> "USER",
     auth_id |-> auth_id, last_login_at |-> last_login_at]

(* The users that exist before any notification arrives. *)
SeedUsers ==
    {User(1, Email("ann", "kilog.io"), "ann", "clerk_1", 0),
     User(2, Email("bob", "kilog.io"), "bob", "clerk_2", 0)}

(* SetBase: weight, reps, rpe (optional), order (default 1). *)
SetCreate(weight, reps) ==
    [weight |-> weight, reps |-> reps, rpe |-> NULL, order |-> 1]

(* The set lists a request carries for one exercise: none, or two sets. *)
SetLists == {<<>>, <<SetCreate(80, 5), SetCreate(85, 5)>>}

-----------------------------------------------------------------------------
(* What a service call gives its caller. *)

NoRequest == <<>>

(* Optional: None is the empty sequence, a value x is <<x>>. *)
NoValue == <<>>

Idle ==
    [op |-> "none", actor |-> NULL, target |-> NULL, request |-> NoRequest,
     kind |-> "none", resource |-> "none", id |-> NULL, reason |-> "none",
     pos |-> 0, value |-> <<>>, rolled_back |-> FALSE,
     had_pending |-> FALSE, committed |-> FALSE]

(* pos: the place in the input's exercise list the outcome is about. *)
Returned(value) ==
    [kind |-> "ok", resource |-> "none", id |-> NULL, reason |-> "none",
     pos |-> 0, value |-> value]

ResourceNotFoundException(resource, id) ==
    [kind |-> "NotFound", resource |-> resource, id |-> id,
     reason |-> "none", pos |-> 0, value |-> <<>>]

ExerciseNotFoundException(exercise_id) ==
    ResourceNotFoundException("Exercise", exercise_id)

WorkoutNotFoundException(workout_id) ==
    ResourceNotFoundException("Workout", workout_id)

UserNotFoundException(user_id) ==
    ResourceNotFoundException("User", user_id)

PermissionDeniedException(resource, user_id) ==
    [kind |-> "PermissionDenied", resource |-> resource, id |-> user_id,
     reason |-> resource, pos |-> 0, value |-> <<>>]

DatabaseSystemException ==
    [kind |-> "SystemError", resource |-> "none", id |-> NULL,
     reason |-> "none", pos |-> 0, value |-> <<>>]

(* Raised if trying to save a workout with no exercises. *)
EmptyWorkoutException ==
    [kind |-> "BusinessRule", resource |-> "Workout", id |-> NULL,
     reason |-> "Cannot save an empty workout", pos |-> 0, value |-> <<>>]

-----------------------------------------------------------------------------
(* The exception handlers (main.py, core/errors.py). *)

(* The classes of a raised exception, most derived first, up to            *)
(* FitAppException.                                                        *)
mro(exc) ==
    CASE exc.kind = "NotFound" ->
            <<exc.resource \o "NotFoundException",
              "ResourceNotFoundException", "FitAppException">>
      [] exc.kind = "Conflict" ->
            <<"UserAlreadyExistsException", "ResourceConflictException",
              "FitAppException">>
      [] exc.kind = "BusinessRule" ->
            <<"EmptyWorkoutException", "BusinessRuleViolationException",
              "FitAppException">>
      [] exc.kind = "PermissionDenied" ->
            <<"PermissionDeniedException", "FitAppException">>
      [] exc.kind = "SystemError" ->
            <<"DatabaseSystemException", "FitAppException">>

(* app.add_exception_handler(class, handler). *)
exception_handlers ==
    [ResourceNotFoundException |-> "resource_not_found_handler",
     ResourceConflictException |-> "resource_conflict_handler",
     BusinessRuleViolationException |-> "business_rule_handler",
     FitAppException |-> "app_exception_handler"]

(* The handler of the first class of the exception that has one. *)
lookup_handler(exc) ==
    LET classes == mro(exc)
        first == CHOOSE i \in DOMAIN classes :
                    /\ classes[i] \in DOMAIN exception_handlers
                    /\ \A j \in 1..(i - 1) :
                            classes[j] \notin DOMAIN exception_handlers
    IN  exception_handlers[classes[first]]

(* str(exc): the text the constructor built, with the values it put in.    *)
(* original_error is the store's error text DatabaseSystemException was    *)
(* raised with.                                                            *)
str(exc, original_error) ==
    CASE exc.kind = "NotFound" ->
            [text |-> "{resource} with id {id} not found.",
             resource |-> exc.resource, id |-> exc.id, detail |-> "none"]
      [] exc.kind = "Conflict" ->
            [text |-> "User with identifier '{identifier}' already exists.",
             resource |-> exc.resource, id |-> NULL, detail |-> "none"]
      [] exc.kind = "BusinessRule" ->
            [text |-> exc.reason,
             resource |-> exc.resource, id |-> NULL, detail |-> "none"]
      [] exc.kind = "PermissionDenied" ->
            [text |-> "User {user_id} does not have permission to access "
                        \o "this {resource}.",
             resource |-> exc.resource, id |-> exc.id, detail |-> "none"]
      [] exc.kind = "SystemError" ->
            [text |-> "System Database Error: {original_error}",
             resource |-> "none", id |-> NULL, detail |-> original_error]

JSONResponse(status_code, error, message) ==
    [status_code |-> status_code, error |-> error, message |-> message]

app_exception_handler(exc, original_error) ==
    JSONResponse(500, "Internal Error", str(exc, original_error))

resource_not_found_handler(exc, original_error) ==
    JSONResponse(404, "Not Found", str(exc, original_error))

resource_conflict_handler(exc, original_error) ==
    JSONResponse(409, "Conflict", str(exc, original_error))

business_rule_handler(exc, original_error) ==
    JSONResponse(400, "Bad Request", str(exc, original_error))

(* What the caller gets when a service call of a route raises: the         *)
(* exception goes to its handler, the response is kept with the outcome.   *)
surface(eff, original_error) ==
    LET handler == lookup_handler(eff.out)
        response ==
            CASE handler = "resource_not_found_handler" ->
                    resource_not_found_handler(eff.out, original_error)
              [] handler = "resource_conflict_handler" ->
                    resource_conflict_handler(eff.out, original_error)
              [] handler = "business_rule_handler" ->
                    business_rule_handler(eff.out, original_error)
              [] handler = "app_exception_handler" ->
                    app_exception_handler(eff.out, original_error)
    IN  IF eff.out.kind = "ok"
        THEN eff
        ELSE [eff EXCEPT !.out.value = response]

-----------------------------------------------------------------------------
(* The session. commit makes the pending changes the committed contents,   *)
(* rollback drops them.                                                    *)

Effect(d, v, out, rolled_back, had_pending, committed) ==
    [db |-> d, view |-> v, out |-> out, rolled_back |-> rolled_back,
     had_pending |-> had_pending, committed |-> committed]

(* entry is the session's view when the function was called: had_pending   *)
(* tells whether the function had changed anything when it failed.         *)
commit(v, out) == Effect(v, v, out, FALSE, FALSE, TRUE)

(* A rollback that does not undo what was already flushed. *)
rollback_keeps_flushed(d, entry, v, out) ==
    Effect(v, v, out, TRUE, v # entry, FALSE)

rollback(d, entry, v, out) == Effect(d, d, out, TRUE, v # entry, FALSE)

(* An exception that leaves the function with no handler calling rollback. *)
propagate(d, entry, v, out) == Effect(d, v, out, FALSE, v # entry, FALSE)

(* A read: nothing pending, nothing committed. *)
read(d, v, out) == Effect(d, v, out, FALSE, FALSE, FALSE)

-----------------------------------------------------------------------------
(* Ownership rules of the catalog (exercise_service.py). *)

(* A read rule with no ownership test. *)
canRead_anyone(exercise, user_id) == TRUE

canRead(exercise, user_id) ==
    ~(exercise.user_id # NULL /\ exercise.user_id # user_id)

(* A write rule copied from the read rule: global entries pass. *)
write_check_as_read(v, exercise_id, user_id) ==
    IF exercise_id \notin Ids(v.exercises)
    THEN ExerciseNotFoundException(exercise_id)
    ELSE IF ~canRead(Row(v.exercises, exercise_id), user_id)
    THEN PermissionDeniedException("Other User's Exercise", user_id)
    ELSE Returned(Row(v.exercises, exercise_id))

(* The check update_exercise and delete_exercise share. *)
write_check(v, exercise_id, user_id) ==
    IF exercise_id \notin Ids(v.exercises)
    THEN ExerciseNotFoundException(exercise_id)
    ELSE IF Row(v.exercises, exercise_id).user_id = NULL
    THEN PermissionDeniedException("System Exercises", user_id)
    ELSE IF Row(v.exercises, exercise_id).user_id # user_id
    THEN PermissionDeniedException("Other User's Exercise", user_id)
    ELSE Returned(Row(v.exercises, exercise_id))

(* A lookup that tells the actor the exercise is somebody else's. *)
get_exercise_by_id_forbidden(v, exercise_id, user_id, fault) ==
    IF fault
    THEN DatabaseSystemException
    ELSE IF exercise_id \notin Ids(v.exercises)
    THEN ExerciseNotFoundException(exercise_id)
    ELSE IF ~canRead(Row(v.exercises, exercise_id), user_id)
    THEN PermissionDeniedException("Other User's Exercise", user_id)
    ELSE Returned(Row(v.exercises, exercise_id))

get_exercise_by_id(v, exercise_id, user_id, fault) ==
    IF fault
    THEN DatabaseSystemException
    ELSE IF exercise_id \notin Ids(v.exercises)
    THEN ExerciseNotFoundException(exercise_id)
    ELSE IF ~canRead(Row(v.exercises, exercise_id), user_id)
    THEN ExerciseNotFoundException(exercise_id)
    ELSE Returned(Row(v.exercises, exercise_id))

(* Texts are compared character by character: the characters of the       *)
(* exercise names.                                                         *)
chars(name) ==
    CASE name = "Bench Press" ->
            <<"B", "e", "n", "c", "h", " ", "P", "r", "e", "s", "s">>
      [] name = "Squat" -> <<"S", "q", "u", "a", "t">>

(* The lower-case form of a character. *)
lower(c) ==
    CASE c = "B" -> "b"
      [] c = "P" -> "p"
      [] c = "S" -> "s"
      [] c = "Q" -> "q"
      [] c = "E" -> "e"
      [] OTHER -> c

(* text LIKE pattern, ignoring case: "%" stands for any characters, "_"    *)
(* for any one character, any other character for itself.                 *)
RECURSIVE like(_, _)
like(text, pattern) ==
    IF pattern = <<>>
    THEN text = <<>>
    ELSE IF Head(pattern) = "%"
    THEN \/ like(text, Tail(pattern))
         \/ text # <<>> /\ like(Tail(text), pattern)
    ELSE IF text = <<>>
    THEN FALSE
    ELSE IF Head(pattern) = "_"
    THEN like(Tail(text), Tail(pattern))
    ELSE /\ lower(Head(text)) = lower(Head(pattern))
         /\ like(Tail(text), Tail(pattern))

(* Exercise.name.ilike(pattern). *)
ilike(name, pattern) == like(chars(name), pattern)

(* No search text: None, or the empty string. *)
NoSearch == <<>>

(* The rows the statement of list_exercises selects, before its limit. *)
select_exercises(v, user_id, search_query) ==
    {e \in v.exercises :
        /\ e.user_id = NULL \/ e.user_id = user_id
        /\ search_query # NoSearch =>
                ilike(e.name, <<"%">> \o search_query \o <<"%">>)}

(* .limit(limit) with no order_by: any limit of the rows, all of them      *)
(* when there are no more.                                                 *)
limit_any(rows, limit) ==
    {picked \in SUBSET rows :
        Cardinality(picked) = IF Cardinality(rows) < limit
                              THEN Cardinality(rows) ELSE limit}

(* picked is the rows the store returns for the limited statement. *)
list_exercises(v, user_id, search_query, limit, picked, fault) ==
    IF fault
    THEN DatabaseSystemException
    ELSE Returned(picked)

create_custom_exercise(d, v, exercise_in, user_id, fault) ==
    LET db_exercise == Exercise(NextId(v.exercises), exercise_in.name,
                                exercise_in.category, user_id)
        added == [v EXCEPT !.exercises = @ \cup {db_exercise}]
    IN  IF fault
        THEN rollback(d, v, added, DatabaseSystemException)
        ELSE commit(added, Returned(db_exercise))

(* model_dump(exclude_unset=True): only the fields the caller set. *)
apply_patch(exercise, patch) ==
    [exercise EXCEPT
        !.name = IF patch.name = UNSET THEN @ ELSE patch.name,
        !.category = IF patch.category = UNSET THEN @ ELSE patch.category]

update_exercise(d, v, exercise_id, exercise_in, user_id, fault) ==
    LET checked == write_check(v, exercise_id, user_id)
        exercise == checked.value
        patched == apply_patch(exercise, exercise_in)
        changed == [v EXCEPT !.exercises = (@ \ {exercise}) \cup {patched}]
    IN  IF checked.kind # "ok"
        THEN propagate(d, v, v, checked)
        ELSE IF fault
        THEN rollback(d, v, changed, DatabaseSystemException)
        ELSE commit(changed, Returned(patched))

(* db.delete(parent) on a relationship with no delete cascade: the         *)
(* children stay and their foreign key is set to NULL.                     *)
nullify(rows, column, id) ==
    {IF r[column] = id THEN [r EXCEPT ![column] = NULL] ELSE r : r \in rows}

delete_exercise(d, v, exercise_id, user_id, fault) ==
    LET checked == write_check(v, exercise_id, user_id)
        exercise == checked.value
        deleted == [v EXCEPT
            !.exercises = @ \ {exercise},
            !.workout_exercises = nullify(@, "exercise_id", exercise_id)]
    IN  IF checked.kind # "ok"
        THEN propagate(d, v, v, checked)
        ELSE IF fault
        THEN rollback(d, v, deleted, DatabaseSystemException)
        ELSE commit(deleted, Returned(<<>>))

-----------------------------------------------------------------------------
(* The workout aggregate (workout_service.py). *)

(* Where the store fails during a call: nowhere, at the first flush, at    *)
(* the query that fetches the workout, at the query of the pos-th exercise *)
(* check, or at commit.                                                    *)
Fault(at, pos) == [at |-> at, pos |-> pos]

NoFault == Fault("none", 0)

Children(v, workout_id) ==
    {we \in v.workout_exercises : we.workout_id = workout_id}

SetsOf(v, workout_exercises) ==
    {s \in v.sets : s.workout_exercise_id \in Ids(workout_exercises)}

(* The Set rows of one exercise instance, added in input order. *)
RECURSIVE add_sets(_, _, _, _)
add_sets(table, workout_exercise_id, sets, j) ==
    IF j > Len(sets)
    THEN table
    ELSE add_sets(table \cup {Set(NextId(table), workout_exercise_id,
                                  sets[j])},
                  workout_exercise_id, sets, j + 1)

(* The loop over workout_in.exercises, from its i-th element on. It stops  *)
(* at the first exercise the actor may not use, with what was added so far *)
(* still pending.                                                          *)
RECURSIVE add_exercises(_, _, _, _, _, _)
add_exercises(v, workout_id, exercises, user_id, i, fault) ==
    IF i > Len(exercises)
    THEN [view |-> v, out |-> Returned(<<>>)]
    ELSE
      LET ex_data == exercises[i]
          checked == get_exercise_by_id(v, ex_data.exercise_id, user_id,
                                        fault = Fault("check", i))
          db_work_exercise ==
              WorkoutExercise(NextId(v.workout_exercises), workout_id,
                              ex_data.exercise_id)
          added == [v EXCEPT
              !.workout_exercises = @ \cup {db_work_exercise},
              !.sets = add_sets(@, db_work_exercise.id, ex_data.sets, 1)]
      IN  IF checked.kind = "NotFound"
          THEN [view |-> v,
                out |-> [ExerciseNotFoundException(ex_data.exercise_id)
                            EXCEPT !.pos = i]]
          ELSE IF checked.kind # "ok"
          THEN [view |-> v, out |-> [checked EXCEPT !.pos = i]]
          ELSE add_exercises(added, workout_id, exercises, user_id, i + 1,
                             fault)

create_workout(d, v, workout_in, user_id, fault) ==
    LET db_workout == Workout(NextId(v.workouts), user_id,
                              workout_in.date, workout_in.notes)
        flushed == [v EXCEPT !.workouts = @ \cup {db_workout}]
        built == add_exercises(flushed, db_workout.id, workout_in.exercises,
                               user_id, 1, fault)
    IN  IF fault.at = "flush"
        THEN rollback(d, v, flushed, DatabaseSystemException)
        ELSE IF built.out.kind = "NotFound"
        THEN rollback(d, v, built.view, built.out)
        ELSE IF built.out.kind # "ok"
        THEN propagate(d, v, built.view, built.out)
        ELSE IF fault.at = "commit"
        THEN rollback(d, v, built.view, DatabaseSystemException)
        ELSE commit(built.view, Returned(db_workout))

(* A fetch with no ownership test. *)
get_workout_by_id_unchecked(v, workout_id, user_id, fault) ==
    IF fault
    THEN DatabaseSystemException
    ELSE IF workout_id \notin Ids(v.workouts)
    THEN WorkoutNotFoundException(workout_id)
    ELSE Returned(Row(v.workouts, workout_id))

get_workout_by_id(v, workout_id, user_id, fault) ==
    IF fault
    THEN DatabaseSystemException
    ELSE IF workout_id \notin Ids(v.workouts)
    THEN WorkoutNotFoundException(workout_id)
    ELSE IF Row(v.workouts, workout_id).user_id # user_id
    THEN PermissionDeniedException("Workout belongs to another user", user_id)
    ELSE Returned(Row(v.workouts, workout_id))

(* The rows of a SELECT with no ORDER BY, as the store returns them: in    *)
(* any order.                                                              *)
unordered(rows) ==
    {o \in [1..Cardinality(rows) -> rows] :
        \A i, j \in 1..Cardinality(rows) : i < j => o[i] # o[j]}

(* The columns of a Set row the caller wrote. *)
SetBase(s) ==
    [weight |-> s.weight, reps |-> s.reps, rpe |-> s.rpe, order |-> s.order]

(* A workout with its collections loaded: selectinload(Workout.exercises)  *)
(* and selectinload(WorkoutExercise.sets) each run a SELECT ... WHERE      *)
(* parent IN (...), the relationships declare no order_by. instances is    *)
(* the order the children came in, sets_of the order of each one's sets.   *)
WorkoutResponse(workout, instances, sets_of) ==
    [id |-> workout.id, user_id |-> workout.user_id,
     date |-> workout.date, notes |-> workout.notes,
     exercises |->
        [i \in 1..Len(instances) |->
            [exercise_id |-> instances[i].exercise_id,
             sets |-> [j \in 1..Len(sets_of[instances[i]]) |->
                        SetBase(sets_of[instances[i]][j])]]]]

(* The orders the store can return the collections of a workout in. *)
selectinload(v, workout_id) ==
    LET children == Children(v, workout_id)
        orders == UNION {unordered(SetsOf(v, {c})) : c \in children}
    IN  {[instances |-> o, sets_of |-> f] :
            o \in unordered(children),
            f \in {g \in [children -> orders] :
                    \A c \in children : g[c] \in unordered(SetsOf(v, {c}))}}

(* get_workout_by_id with the collections the response reads. *)
get_workout_loaded(v, workout_id, user_id, order, fault) ==
    LET found == get_workout_by_id(v, workout_id, user_id, fault)
    IN  IF found.kind = "ok"
        THEN Returned(WorkoutResponse(found.value, order.instances,
                                      order.sets_of))
        ELSE found

(* The rows of list_user_workouts before ordering: the user's workouts. *)
select_workouts(v, user_id) == {w \in v.workouts : w.user_id = user_id}

(* A statement with no order_by: the rows in any order. *)
order_by_nothing(rows) ==
    {o \in [1..Cardinality(rows) -> rows] :
        \A i, j \in 1..Cardinality(rows) : i < j => o[i] # o[j]}

(* order_by(desc(Workout.date)): every order of the rows in which dates    *)
(* do not increase; rows of one date come in any order.                    *)
order_by_date_desc(rows) ==
    {o \in [1..Cardinality(rows) -> rows] :
        \A i, j \in 1..Cardinality(rows) :
            i < j => (o[i] # o[j] /\ o[i].date >= o[j].date)}

(* .limit(limit).offset(offset): the rows after the first offset, limit of *)
(* them at most.                                                           *)
limit_offset(ordered, limit, offset) ==
    IF offset >= Len(ordered)
    THEN <<>>
    ELSE SubSeq(ordered, offset + 1,
                IF Len(ordered) < offset + limit
                THEN Len(ordered) ELSE offset + limit)

(* ordered is the order the store returns the user's workouts in. *)
list_user_workouts(v, user_id, limit, offset, ordered, fault) ==
    IF fault
    THEN DatabaseSystemException
    ELSE Returned(limit_offset(ordered, limit, offset))

(* A relationship without delete-orphan: the old children stay. *)
clear_exercises_keeps_children(v, workout_id) == v

(* A cascade that stops at the exercise instances: their sets stay. *)
clear_exercises_keeps_sets(v, workout_id) ==
    [v EXCEPT !.workout_exercises = @ \ Children(v, workout_id)]

(* exercises.clear() with cascade "all, delete-orphan" on both levels. *)
clear_exercises(v, workout_id) ==
    [v EXCEPT !.workout_exercises = @ \ Children(v, workout_id),
              !.sets = @ \ SetsOf(v, Children(v, workout_id))]

update_workout(d, v, workout_id, workout_in, user_id, fault) ==
    LET fetched == get_workout_by_id(v, workout_id, user_id,
                                     fault.at = "fetch")
        db_workout == [fetched.value EXCEPT !.date = workout_in.date,
                                            !.notes = workout_in.notes]
        updated == [v EXCEPT
            !.workouts = (@ \ {fetched.value}) \cup {db_workout}]
        cleared == clear_exercises(updated, workout_id)
        built == add_exercises(cleared, workout_id, workout_in.exercises,
                               user_id, 1, fault)
    IN  IF fetched.kind # "ok"
        THEN propagate(d, v, v, fetched)
        ELSE IF built.out.kind # "ok"
        THEN propagate(d, v, built.view, built.out)
        ELSE IF fault.at = "commit"
        THEN rollback(d, v, built.view, DatabaseSystemException)
        ELSE commit(built.view, Returned(db_workout))

(* What the session of an update_workout holds when it reaches            *)
(* db.commit(): the workout row, exercise instances and sets the fetch     *)
(* loaded, and the request that replaces them.                             *)
UnitOfWork(v, workout_id, workout_in, user_id) ==
    [op |-> "update_workout", actor |-> user_id, target |-> workout_id,
     request |-> workout_in,
     workout |-> Row(v.workouts, workout_id),
     workout_exercises |-> Children(v, workout_id),
     sets |-> SetsOf(v, Children(v, workout_id))]

(* The session of a request that has ended holds nothing. *)
Ended ==
    [op |-> "ended", actor |-> NULL, target |-> NULL, request |-> NoRequest,
     workout |-> <<>>, workout_exercises |-> {}, sets |-> {}]

(* The UPDATE of the flush: only the columns the session changed. *)
flush_columns(row, loaded, workout_in) ==
    [row EXCEPT
        !.date = IF workout_in.date # loaded.date
                 THEN workout_in.date ELSE @,
        !.notes = IF workout_in.notes # loaded.notes
                  THEN workout_in.notes ELSE @]

(* The flush of db.commit() against the store as it is then: UPDATE the    *)
(* workout row, DELETE by primary key the sets and exercise instances the  *)
(* session loaded (a row already gone matches nothing), INSERT the new     *)
(* ones. in_use are the rows other sessions loaded: the sequences never    *)
(* hand out their ids again.                                               *)
flush_update(d, unit, in_use) ==
    LET row == Row(d.workouts, unit.target)
        taken == [d EXCEPT
            !.workouts = (@ \ {row}) \cup
                {flush_columns(row, unit.workout, unit.request)},
            !.workout_exercises = @ \cup in_use.workout_exercises,
            !.sets = @ \cup in_use.sets]
        inserted == add_exercises(taken, unit.target, unit.request.exercises,
                                  unit.actor, 1, NoFault).view
    IN  [inserted EXCEPT
            !.workout_exercises =
                (@ \ unit.workout_exercises) \
                    (in_use.workout_exercises \ d.workout_exercises),
            !.sets = (@ \ unit.sets) \ (in_use.sets \ d.sets)]

(* db.commit() of an update_workout whose session holds unit. *)
commit_update(d, unit, in_use, fault) ==
    IF fault \/ unit.target \notin Ids(d.workouts)
    THEN rollback(d, d, d, DatabaseSystemException)
    ELSE commit(flush_update(d, unit, in_use),
                Returned(flush_columns(Row(d.workouts, unit.target),
                                       unit.workout, unit.request)))

(* db.delete(workout) with the same cascade. *)
delete_workout(d, v, workout_id, user_id, fault) ==
    LET fetched == get_workout_by_id(v, workout_id, user_id,
                                     fault.at = "fetch")
        deleted == [clear_exercises(v, workout_id) EXCEPT
                        !.workouts = @ \ {fetched.value}]
    IN  IF fetched.kind # "ok"
        THEN propagate(d, v, v, fetched)
        ELSE IF fault.at = "commit"
        THEN rollback(d, v, deleted, DatabaseSystemException)
        ELSE commit(deleted, Returned(<<>>))

-----------------------------------------------------------------------------
(* The user rows (user_service.py). *)

(* User.workouts and User.exercises carry no delete cascade. *)
delete_user(d, v, user_id, fault) ==
    LET deleted == [v EXCEPT
            !.users = {u \in @ : u.id # user_id},
            !.workouts = nullify(@, "user_id", user_id),
            !.exercises = nullify(@, "user_id", user_id)]
    IN  IF user_id \notin Ids(v.users)
        THEN propagate(d, v, v, UserNotFoundException(user_id))
        ELSE IF fault
        THEN rollback(d, v, deleted, DatabaseSystemException)
        ELSE commit(deleted, Returned(<<>>))

(* UserAlreadyExistsException(identifier). *)
UserAlreadyExistsException(identifier) ==
    [kind |-> "Conflict", resource |-> "User", id |-> NULL,
     reason |-> identifier, pos |-> 0, value |-> <<>>]

(* UserCreate: email, username, auth_id. *)
UserCreate(email, username, auth_id) ==
    [email |-> email, username |-> username, auth_id |-> auth_id]

(* The unique columns of users a new row would repeat. *)
violations(users, user_in) ==
    {c \in {"auth_id", "email", "username"} :
        \E u \in users : u[c] = user_in[c]}

(* A users table with no unique constraint: the row is always added. *)
create_user_unconstrained(d, v, user_in, now, named, fault) ==
    LET db_user == User(NextId(v.users), user_in.email, user_in.username,
                        user_in.auth_id, now)
        added == [v EXCEPT !.users = @ \cup {db_user}]
    IN  IF fault
        THEN rollback(d, v, added, DatabaseSystemException)
        ELSE commit(added, Returned(db_user))

(* now is the server's clock (last_login_at has server_default now());    *)
(* named is the constraint the store's IntegrityError names when the row   *)
(* repeats a unique column.                                                *)
create_user(d, v, user_in, now, named, fault) ==
    LET db_user == User(NextId(v.users), user_in.email, user_in.username,
                        user_in.auth_id, now)
        added == [v EXCEPT !.users = @ \cup {db_user}]
    IN  IF fault
        THEN rollback(d, v, added, DatabaseSystemException)
        ELSE IF violations(v.users, user_in) # {}
        THEN rollback(d, v, added,
                UserAlreadyExistsException(
                    IF named = "auth_id" THEN <<"Auth ID", user_in.auth_id>>
                    ELSE IF named = "email" THEN <<"Email", user_in.email>>
                    ELSE <<"User constraint violation">>))
        ELSE commit(added, Returned(db_user))

(* UserUpdate built from keyword arguments: the schema declares          *)
(* last_login_at only, a field                                             *)
(* it does not declare is dropped.                                         *)
UserUpdate(fields) ==
    [k \in DOMAIN fields \cap {"last_login_at"} |-> fields[k]]

(* A setattr loop that skips every field. *)
apply_user_update_skipped(user, user_in) == user

(* The setattr loop of update_user over model_dump(exclude_unset=True). *)
apply_user_update(user, user_in) ==
    [k \in DOMAIN user |->
        IF k \in DOMAIN user_in /\ k \notin {"id", "auth_id", "role", "email"}
        THEN user_in[k] ELSE user[k]]

update_user(d, v, user_id, user_in, fault) ==
    LET user == Row(v.users, user_id)
        changed == [v EXCEPT !.users =
                        (@ \ {user}) \cup {apply_user_update(user, user_in)}]
    IN  IF user_id \notin Ids(v.users)
        THEN propagate(d, v, v, UserNotFoundException(user_id))
        ELSE IF fault
        THEN rollback(d, v, changed, DatabaseSystemException)
        ELSE commit(changed, Returned(apply_user_update(user, user_in)))

-----------------------------------------------------------------------------
(* The identity provider's notifications (utils/security.py). *)

(* The lookup by external identity: the users with that auth_id, none or   *)
(* one.                                                                    *)
get_user_by_auth_id(v, auth_id, fault) ==
    IF fault
    THEN DatabaseSystemException
    ELSE Returned({u \in v.users : u.auth_id = auth_id})

HTTPException(status_code, detail) ==
    [kind |-> "HTTPException", resource |-> "none", id |-> status_code,
     reason |-> detail, pos |-> 0, value |-> <<>>]

KeyError(key) ==
    [kind |-> "KeyError", resource |-> "none", id |-> NULL,
     reason |-> key, pos |-> 0, value |-> <<>>]

(* A notification with no username, or an empty one. *)
NoUsername == ""

(* The dict the handler returns. *)
Response(status, detail) == Returned([status |-> status, detail |-> detail])

(* A handler that catches the service's own exceptions only. *)
acknowledge_service_errors(eff) ==
    IF eff.out.kind \in {"NotFound", "Conflict", "SystemError"}
    THEN [eff EXCEPT !.out = Response("error", <<eff.out.kind,
                                                  eff.out.reason>>)]
    ELSE eff

(* except Exception: whatever was raised, the sender gets a dict with      *)
(* status "error" and str(e).                                              *)
acknowledge(eff) ==
    IF eff.out.kind # "ok"
    THEN [eff EXCEPT !.out = Response("error", <<eff.out.kind,
                                                  eff.out.reason>>)]
    ELSE eff

(* email_addresses[0]["email_address"] if email_addresses else None. *)
first_email(event_data) ==
    IF event_data.email_addresses = <<>>
    THEN Returned(NoValue)
    ELSE IF "email_address" \notin DOMAIN event_data.email_addresses[1]
    THEN KeyError("email_address")
    ELSE Returned(<<event_data.email_addresses[1].email_address>>)

(* The username of the notification, else the e-mail's part before "@". *)
smart_username(event_data, email) ==
    IF event_data.username # NoUsername
    THEN event_data.username ELSE email[1]

(* user.created up to the call of create_user: an answer, or the           *)
(* UserCreate to create ("create").                                        *)
user_created(v, event, fault) ==
    LET email == first_email(event)
        found == get_user_by_auth_id(v, event.id, fault)
    IN  IF ~event.signed
        THEN read(v, v, HTTPException(400, "Invalid signature"))
        ELSE IF email.kind # "ok"
        THEN acknowledge(read(v, v, email))
        ELSE IF email.value = NoValue
        THEN read(v, v, Response("error", <<"Missing email">>))
        ELSE IF found.kind # "ok"
        THEN acknowledge(read(v, v, found))
        ELSE IF found.value # {}
        THEN read(v, v, Response("ok", <<>>))
        ELSE read(v, v, [Returned(UserCreate(email.value[1],
                                smart_username(event, email.value[1]),
                                event.id))
                            EXCEPT !.kind = "create"])

(* The other notifications, from the signature check to the answer. fault  *)
(* is where the store fails: "none", "lookup" or "commit".                 *)
handle_clerk_webhook(d, v, event, now, fault) ==
    LET found == get_user_by_auth_id(v, event.id, fault = "lookup")
        user == CHOOSE u \in found.value : TRUE
        done(eff) == IF eff.out.kind = "ok"
                     THEN [eff EXCEPT !.out = Response("success", <<>>)]
                     ELSE acknowledge(eff)
    IN  IF ~event.signed
        THEN read(d, v, HTTPException(400, "Invalid signature"))
        ELSE IF event.type \notin
                    {"user.updated", "session.created", "user.deleted"}
        THEN read(d, v, Response("success", <<>>))
        ELSE IF found.kind # "ok"
        THEN acknowledge(read(d, v, found))
        ELSE IF found.value = {}
        THEN read(d, v, Response("success", <<>>))
        ELSE IF event.type = "user.updated"
        THEN IF event.username # NoUsername
                    /\ event.username # user.username
             THEN done(update_user(d, v, user.id,
                        UserUpdate([username |-> event.username]),
                        fault = "commit"))
             ELSE read(d, v, Response("success", <<>>))
        ELSE IF event.type = "session.created"
        THEN done(update_user(d, v, user.id,
                        UserUpdate([last_login_at |-> now]),
                        fault = "commit"))
        ELSE done(delete_user(d, v, user.id, fault = "commit"))

-----------------------------------------------------------------------------
(* Analytics (analytics_service.py). Weights are whole numbers here.       *)

(* func.min in place of func.max. *)
Min(S) == CHOOSE m \in S : \A n \in S : m <= n

(* func.max over a non-empty column. *)
Max(S) == CHOOSE m \in S : \A n \in S : n <= m

(* A join that leaves out .where(Workout.user_id == user_id). *)
JoinedSets_any_user(v, user_id, exercise_id) ==
    {s \in v.sets : \E we \in v.workout_exercises, w \in v.workouts :
        /\ s.workout_exercise_id = we.id
        /\ we.workout_id = w.id
        /\ we.exercise_id = exercise_id}

(* Set joined to WorkoutExercise joined to Workout, for one user and one   *)
(* exercise.                                                               *)
JoinedSets(v, user_id, exercise_id) ==
    {s \in v.sets : \E we \in v.workout_exercises, w \in v.workouts :
        /\ s.workout_exercise_id = we.id
        /\ we.workout_id = w.id
        /\ w.user_id = user_id
        /\ we.exercise_id = exercise_id}

(* A lookup that checks the exercise first, as the workout service does. *)
get_personal_best_checked(v, user_id, exercise_id, fault) ==
    LET weights == {s.weight : s \in JoinedSets(v, user_id, exercise_id)}
    IN  IF fault
        THEN DatabaseSystemException
        ELSE IF get_exercise_by_id(v, exercise_id, user_id, FALSE).kind # "ok"
        THEN ExerciseNotFoundException(exercise_id)
        ELSE Returned(IF weights = {} THEN NoValue ELSE <<Max(weights)>>)

get_personal_best(v, user_id, exercise_id, fault) ==
    LET weights == {s.weight : s \in JoinedSets(v, user_id, exercise_id)}
    IN  IF fault
        THEN DatabaseSystemException
        ELSE Returned(IF weights = {} THEN NoValue ELSE <<Max(weights)>>)

(* The joined sets that hang from one workout. *)
SetsIn(v, sets, workout_id) ==
    {s \in sets : s.workout_exercise_id \in Ids(Children(v, workout_id))}

(* group_by(Workout.id, Workout.date): one row per workout that has a      *)
(* joined set, with the largest weight among them.                         *)
progress_rows(v, user_id, exercise_id) ==
    LET joined == JoinedSets(v, user_id, exercise_id)
    IN  {[id |-> w.id, date |-> w.date,
          top_weight |-> Max({s.weight : s \in SetsIn(v, joined, w.id)})] :
            w \in {x \in v.workouts : SetsIn(v, joined, x.id) # {}}}

(* order_by(Workout.date.asc()): every order of the rows in which dates    *)
(* do not decrease; rows of one date come in any order.                    *)
order_by_date_asc(rows) ==
    {o \in [1..Cardinality(rows) -> rows] :
        \A i, j \in 1..Cardinality(rows) :
            i < j => (o[i] # o[j] /\ o[i].date <= o[j].date)}

(* .limit(limit): the first rows of the ordered result. *)
limit_rows(ordered, limit) ==
    SubSeq(ordered, 1, IF Len(ordered) < limit THEN Len(ordered) ELSE limit)

(* ordered is the order the store returns the grouped rows in. *)
get_exercise_progress(v, user_id, exercise_id, limit, ordered, fault) ==
    LET results == limit_rows(ordered, limit)
    IN  IF fault
        THEN DatabaseSystemException
        ELSE Returned([i \in 1..Len(results) |->
                [date |-> results[i].date, weight |-> results[i].top_weight]])

(* today is datetime.now().date(). *)
get_weekly_consistency(v, user_id, today, fault) ==
    LET seven_days_ago == today - 7
    IN  IF fault
        THEN DatabaseSystemException
        ELSE Returned(Cardinality({w \in v.workouts :
                        w.user_id = user_id /\ w.date >= seven_days_ago}))

-----------------------------------------------------------------------------
(* Requests. *)

SeqsUpTo(S, n) == UNION {[1..k -> S] : k \in 0..n}

ExerciseRefs == 1..MaxExercises
WorkoutRefs == 1..MaxWorkouts

ExerciseCreate == [name : Names, category : Categories]

(* update_exercise takes an ExerciseBase: name is required, category is    *)
(* set or left out.                                                        *)
ExerciseBase == [name : Names, category : Categories \cup {UNSET}]

WorkoutExerciseCreate == [exercise_id : ExerciseRefs, sets : SetLists]

(* WorkoutBase: date and notes. *)
WorkoutBase ==
    {[date |-> 1, notes |-> NoNotes], [date |-> 2, notes |-> "Heavy day"]}

WorkoutCreate ==
    {[date |-> b.date, notes |-> b.notes, exercises |-> e] :
        b \in WorkoutBase,
        e \in SeqsUpTo(WorkoutExerciseCreate, MaxExercisesPerWorkout)}

WorkoutUpdate == WorkoutCreate

CheckFaults == {Fault("check", k) : k \in 1..MaxExercisesPerWorkout}
CreateFaults == {NoFault, Fault("flush", 0), Fault("commit", 0)} \cup CheckFaults
UpdateFaults == {NoFault, Fault("fetch", 0), Fault("commit", 0)} \cup CheckFaults
DeleteFaults == {NoFault, Fault("fetch", 0), Fault("commit", 0)}

(* The sessions logged before the analytics are read: on one of three     *)
(* days, with exercise 1 done once with two sets, once with one heavier    *)
(* set, once with no set, or twice in the same workout.                    *)
Days == {2, 3, 11}

SessionPlans ==
    {<<[exercise_id |-> 1, sets |-> <<SetCreate(80, 5), SetCreate(85, 5)>>]>>,
     <<[exercise_id |-> 1, sets |-> <<SetCreate(92, 3)>>]>>,
     <<[exercise_id |-> 1, sets |-> <<>>]>>,
     <<[exercise_id |-> 1, sets |-> <<SetCreate(80, 5), SetCreate(85, 5)>>],
       [exercise_id |-> 1, sets |-> <<SetCreate(92, 3)>>]>>}

SessionsLogged ==
    {[date |-> d, notes |-> NoNotes, exercises |-> e] :
        d \in Days, e \in SessionPlans}

(* The requests of the updates that run at the same time, and of the      *)
(* workout they replace.                                                   *)
ConcurrentUpdates ==
    {[date |-> 1, notes |-> NoNotes, exercises |-> <<>>],
     [date |-> 2, notes |-> "Heavy day",
      exercises |-> <<[exercise_id |-> 1,
                       sets |-> <<SetCreate(80, 5), SetCreate(85, 5)>>]>>],
     [date |-> 1, notes |-> NoNotes,
      exercises |-> <<[exercise_id |-> 1, sets |-> <<>>]>>]}

SessionIds == 1..MaxInFlight

(* The notifications: their type, the external identity they are about,    *)
(* the e-mail addresses and username they carry, and whether their         *)
(* signature verifies.                                                     *)
Event(type, id, email_addresses, username, signed) ==
    [type |-> type, id |-> id, email_addresses |-> email_addresses,
     username |-> username, signed |-> signed]

(* The identity of a seeded user and one no user has yet. *)
AuthIds == {"clerk_1", "clerk_3"}

(* An address no user has. *)
NewAddress == <<[email_address |-> Email("cat", "kilog.io")]>>

(* No address, a new address, an address a seeded user has, and an entry   *)
(* with no "email_address" key.                                            *)
EmailLists ==
    {<<>>,
     NewAddress,
     <<[email_address |-> Email("ann", "kilog.io")]>>,
     <<[id |-> "idn_1"]>>}

CreatedEvents ==
    {Event("user.created", "clerk_3", e, NoUsername, TRUE) :
        e \in EmailLists}
    \cup {Event("user.created", "clerk_3", NewAddress, "kit", TRUE),
          Event("user.created", "clerk_1", NewAddress, NoUsername, TRUE),
          Event("user.created", "clerk_3", <<>>, NoUsername, FALSE)}

OtherEvents ==
    {Event("user.updated", id, <<>>, u, TRUE) :
        id \in AuthIds, u \in {NoUsername, "kit"}}
    \cup {Event(t, id, <<>>, NoUsername, TRUE) :
            t \in {"session.created", "user.deleted"}, id \in AuthIds}
    \cup {Event("email.created", "clerk_1", <<>>, NoUsername, TRUE),
          Event("user.deleted", "clerk_1", <<>>, NoUsername, FALSE)}

(* The texts of the store's errors, str(e) of a SQLAlchemyError. *)
StoreErrors == {"connection refused", "deadlock detected"}

(* The users create_user is asked to add: a new one, and ones that repeat  *)
(* the identity, the e-mail or the username of a seeded user.              *)
UserCreates ==
    {UserCreate(Email("cat", "kilog.io"), "cat", "clerk_3"),
     UserCreate(Email("dan", "kilog.io"), "dan", "clerk_1"),
     UserCreate(Email("ann", "kilog.io"), "eve", "clerk_4"),
     UserCreate(Email("ann", "kilog.io"), "fay", "clerk_1"),
     UserCreate(Email("gus", "kilog.io"), "bob", "clerk_5")}

(* The search texts: none, parts of names in either case, a text no name   *)
(* has, and texts with the characters "_" and "%".                         *)
Searches ==
    {NoSearch, <<"s", "q">>, <<"E", "S", "S">>, <<"x">>,
     <<"_">>, <<"q", "%", "t">>}

(* The offsets of a listing. *)
Offsets == {0, 1}

(* The server's clock when a row is written. *)
Clock == {1, 2}

(* The days an analytics call is made on, and the limits it is given. *)
Todays == {9, 10}
Limits == {1, 2}

-----------------------------------------------------------------------------
(* The state machine. *)

(* The store before any workout is logged: the users, the seeded global    *)
(* exercise and, possibly, a private exercise of user 1.                   *)
InitStores ==
    {[users |-> SeedUsers,
      exercises |-> {Exercise(1, "Bench Press", "Push", NULL)} \cup private,
      workouts |-> {},
      workout_exercises |-> {},
      sets |-> {}] : private \in {{}, {Exercise(2, "Squat", NoCategory, 1)}}}

(* No request has begun. *)
NoneInFlight == <<>>

Init ==
    /\ db \in InitStores
    /\ view = db
    /\ scope = "request"
    /\ last = Idle
    /\ inflight = NoneInFlight

InitShared ==
    /\ db \in InitStores
    /\ view = db
    /\ scope = "shared"
    /\ last = Idle
    /\ inflight = NoneInFlight

(* db.close() drops whatever the session still holds. *)
close(d) == d

(* One service call. In request scope get_db's finally closes the session  *)
(* before the next request gets one. last.request is the request of a call *)
(* that committed.                                                         *)
Call(op, actor, target, request, eff) ==
    /\ db' = eff.db
    /\ view' = IF scope = "request" THEN close(eff.db) ELSE eff.view
    /\ last' = [op |-> op, actor |-> actor, target |-> target,
                request |-> IF eff.committed THEN request ELSE NoRequest,
                kind |-> eff.out.kind, resource |-> eff.out.resource,
                id |-> eff.out.id, reason |-> eff.out.reason,
                pos |-> eff.out.pos, value |-> eff.out.value,
                rolled_back |-> eff.rolled_back,
                had_pending |-> eff.had_pending,
                committed |-> eff.committed]
    /\ UNCHANGED <<scope, inflight>>

GetExercise ==
    \E exercise_id \in ExerciseRefs, user_id \in UserIds, fault \in BOOLEAN :
        Call("get_exercise_by_id", user_id, exercise_id, NoRequest,
             read(db, view,
                  get_exercise_by_id(view, exercise_id, user_id, fault)))

CreateCustomExercise ==
    \E exercise_in \in ExerciseCreate, user_id \in UserIds, fault \in BOOLEAN :
        /\ Cardinality(view.exercises) < MaxExercises
        /\ Call("create_custom_exercise", user_id,
                NextId(view.exercises), exercise_in,
                create_custom_exercise(db, view, exercise_in, user_id, fault))

UpdateExercise ==
    \E exercise_id \in ExerciseRefs, exercise_in \in ExerciseBase,
       user_id \in UserIds, fault \in BOOLEAN :
        Call("update_exercise", user_id, exercise_id, exercise_in,
             update_exercise(db, view, exercise_id, exercise_in, user_id,
                             fault))

DeleteExercise ==
    \E exercise_id \in ExerciseRefs, user_id \in UserIds, fault \in BOOLEAN :
        Call("delete_exercise", user_id, exercise_id, NoRequest,
             delete_exercise(db, view, exercise_id, user_id, fault))

CreateWorkout ==
    \E workout_in \in WorkoutCreate, user_id \in UserIds,
       fault \in CreateFaults :
        /\ Cardinality(view.workouts) < MaxWorkouts
        /\ Call("create_workout", user_id, NextId(view.workouts),
                workout_in,
                create_workout(db, view, workout_in, user_id, fault))

GetWorkout ==
    \E workout_id \in WorkoutRefs, user_id \in UserIds, fault \in BOOLEAN :
        Call("get_workout_by_id", user_id, workout_id, NoRequest,
             read(db, view,
                  get_workout_by_id(view, workout_id, user_id, fault)))

UpdateWorkout ==
    \E workout_id \in WorkoutRefs, workout_in \in WorkoutUpdate,
       user_id \in UserIds, fault \in UpdateFaults :
        Call("update_workout", user_id, workout_id, workout_in,
             update_workout(db, view, workout_id, workout_in, user_id, fault))

DeleteWorkout ==
    \E workout_id \in WorkoutRefs, user_id \in UserIds,
       fault \in DeleteFaults :
        Call("delete_workout", user_id, workout_id, NoRequest,
             delete_workout(db, view, workout_id, user_id, fault))

DeleteUser ==
    \E user_id \in UserIds, fault \in BOOLEAN :
        Call("delete_user", NULL, user_id, NoRequest,
             delete_user(db, view, user_id, fault))

(* A workout logged for the analytics to read. *)
LogSession ==
    \E workout_in \in SessionsLogged, user_id \in UserIds :
        /\ Cardinality(view.workouts) < MaxSessions
        /\ Call("create_workout", user_id, NextId(view.workouts),
                workout_in,
                create_workout(db, view, workout_in, user_id, NoFault))

(* A read whose arguments the caller keeps with the answer. *)
Query(op, actor, target, request, eff) ==
    /\ db' = eff.db
    /\ view' = IF scope = "request" THEN close(eff.db) ELSE eff.view
    /\ last' = [op |-> op, actor |-> actor, target |-> target,
                request |-> request,
                kind |-> eff.out.kind, resource |-> eff.out.resource,
                id |-> eff.out.id, reason |-> eff.out.reason,
                pos |-> eff.out.pos, value |-> eff.out.value,
                rolled_back |-> eff.rolled_back,
                had_pending |-> eff.had_pending,
                committed |-> eff.committed]
    /\ UNCHANGED <<scope, inflight>>

GetPersonalBest ==
    \E user_id \in UserIds, exercise_id \in ExerciseRefs, fault \in BOOLEAN :
        Query("get_personal_best", user_id, exercise_id, NoRequest,
              read(db, view,
                   get_personal_best(view, user_id, exercise_id, fault)))

GetExerciseProgress ==
    \E user_id \in UserIds, exercise_id \in ExerciseRefs, limit \in Limits,
       fault \in BOOLEAN :
        \E ordered \in order_by_date_asc(
                            progress_rows(view, user_id, exercise_id)) :
            Query("get_exercise_progress", user_id, exercise_id,
                  [limit |-> limit],
                  read(db, view,
                       get_exercise_progress(view, user_id, exercise_id,
                                             limit, ordered, fault)))

GetWeeklyConsistency ==
    \E user_id \in UserIds, today \in Todays, fault \in BOOLEAN :
        Query("get_weekly_consistency", user_id, NULL, [today |-> today],
              read(db, view,
                   get_weekly_consistency(view, user_id, today, fault)))

(* create_workout, the caller keeping the request it sent whatever the    *)
(* answer.                                                                 *)
CreateWorkoutKept ==
    \E workout_in \in WorkoutCreate, user_id \in UserIds,
       fault \in CreateFaults :
        /\ Cardinality(view.workouts) < MaxWorkouts
        /\ Query("create_workout", user_id, NextId(view.workouts),
                 workout_in,
                 create_workout(db, view, workout_in, user_id, fault))

(* The workout the overlapping updates replace is created. *)
LogWorkout ==
    \E workout_in \in ConcurrentUpdates, user_id \in UserIds :
        /\ Cardinality(view.workouts) < MaxWorkouts
        /\ Call("create_workout", user_id, NextId(view.workouts),
                workout_in,
                create_workout(db, view, workout_in, user_id, NoFault))

(* The rows the sessions in flight have loaded. *)
InUse ==
    [workout_exercises |->
        UNION {inflight[s].workout_exercises : s \in DOMAIN inflight},
     sets |-> UNION {inflight[s].sets : s \in DOMAIN inflight}]

(* update_workout in a session of its own, up to db.commit(): a call that  *)
(* fails before it ends there; one that gets that far stays in flight.     *)
BeginUpdate ==
    \E s \in SessionIds \ DOMAIN inflight, workout_id \in WorkoutRefs,
       workout_in \in ConcurrentUpdates, user_id \in UserIds,
       fault \in {NoFault, Fault("fetch", 0)} :
        LET eff == update_workout(db, db, workout_id, workout_in, user_id,
                                  fault)
        IN  IF eff.committed
            THEN /\ inflight' = (s :> UnitOfWork(db, workout_id, workout_in,
                                                 user_id)) @@ inflight
                 /\ UNCHANGED <<db, view, scope, last>>
            ELSE Call("update_workout", user_id, workout_id, workout_in,
                      eff)

(* db.commit() of a session in flight, and the end of its request. *)
CommitUpdate ==
    \E s \in DOMAIN inflight, fault \in BOOLEAN :
        LET unit == inflight[s]
            eff == commit_update(db, unit, InUse, fault)
        IN  /\ unit.op = "update_workout"
            /\ db' = eff.db
            /\ view' = close(eff.db)
            /\ last' = [op |-> unit.op, actor |-> unit.actor,
                        target |-> unit.target,
                        request |-> IF eff.committed THEN unit.request
                                    ELSE NoRequest,
                        kind |-> eff.out.kind,
                        resource |-> eff.out.resource,
                        id |-> eff.out.id, reason |-> eff.out.reason,
                        pos |-> eff.out.pos, value |-> eff.out.value,
                        rolled_back |-> eff.rolled_back,
                        had_pending |-> TRUE,
                        committed |-> eff.committed]
            /\ inflight' = [inflight EXCEPT ![s] = Ended]
            /\ UNCHANGED scope

(* What the handler of a user.created notification holds between its      *)
(* lookup and its create_user.                                             *)
Delivery(event, user_in) ==
    [op |-> "user.created", request |-> event, user_in |-> user_in]

(* A user.created notification arrives: the handler answers at once, or    *)
(* finds no user of that identity and goes on to create one.               *)
ReceiveCreated ==
    \E s \in SessionIds \ DOMAIN inflight, event \in CreatedEvents,
       fault \in BOOLEAN :
        LET eff == user_created(db, event, fault)
        IN  IF eff.out.kind = "create"
            THEN /\ inflight' = (s :> Delivery(event, eff.out.value))
                                    @@ inflight
                 /\ UNCHANGED <<db, view, scope, last>>
            ELSE Query(event.type, NULL, NULL, event, eff)

(* create_user of a user.created notification, and the handler's answer. *)
FinishCreated ==
    \E s \in DOMAIN inflight, now \in Clock, fault \in BOOLEAN :
        /\ inflight[s].op = "user.created"
        /\ \E named \in violations(db.users, inflight[s].user_in)
                            \cup {"none"} :
            LET unit == inflight[s]
                made == create_user(db, db, unit.user_in, now, named, fault)
                eff == IF made.out.kind = "ok"
                       THEN [made EXCEPT !.out = Response("success", <<>>)]
                       ELSE acknowledge(made)
            IN  /\ named = "none" <=> violations(db.users, unit.user_in) = {}
                /\ db' = eff.db
                /\ view' = close(eff.db)
                /\ last' = [op |-> unit.op, actor |-> NULL, target |-> NULL,
                            request |-> unit.request,
                            kind |-> eff.out.kind,
                            resource |-> eff.out.resource,
                            id |-> eff.out.id, reason |-> eff.out.reason,
                            pos |-> eff.out.pos, value |-> eff.out.value,
                            rolled_back |-> eff.rolled_back,
                            had_pending |-> eff.had_pending,
                            committed |-> eff.committed]
                /\ inflight' = [inflight EXCEPT ![s] = Ended]
                /\ UNCHANGED scope

(* Any other notification arrives and is handled. *)
Deliver ==
    \E event \in OtherEvents, now \in Clock,
       fault \in {"none", "lookup", "commit"} :
        Query(event.type, NULL, NULL, event,
              handle_clerk_webhook(db, view, event, now, fault))

ListExercises ==
    \E user_id \in UserIds, search_query \in Searches, limit \in Limits,
       fault \in BOOLEAN :
        \E picked \in limit_any(
                select_exercises(view, user_id, search_query), limit) :
            Query("list_exercises", user_id, NULL,
                  [search_query |-> search_query, limit |-> limit],
                  read(db, view,
                       list_exercises(view, user_id, search_query, limit,
                                      picked, fault)))

ReadWorkout ==
    \E workout_id \in WorkoutRefs, user_id \in UserIds, fault \in BOOLEAN :
        \E order \in selectinload(view, workout_id) :
            Query("get_workout_by_id", user_id, workout_id, NoRequest,
                  read(db, view,
                       get_workout_loaded(view, workout_id, user_id, order,
                                          fault)))

ListUserWorkouts ==
    \E user_id \in UserIds, limit \in Limits, offset \in Offsets,
       fault \in BOOLEAN :
        \E ordered \in order_by_date_desc(select_workouts(view, user_id)) :
            Query("list_user_workouts", user_id, NULL,
                  [limit |-> limit, offset |-> offset],
                  read(db, view,
                       list_user_workouts(view, user_id, limit, offset,
                                          ordered, fault)))

(* A route: the service call, and the exception handler when it raises. *)
Route(op, actor, target, request, eff, original_error) ==
    Query(op, actor, target, request, surface(eff, original_error))

ServeUpdateExercise ==
    \E exercise_id \in ExerciseRefs, exercise_in \in ExerciseBase,
       user_id \in UserIds, fault \in BOOLEAN,
       original_error \in StoreErrors :
        Route("update_exercise", user_id, exercise_id, exercise_in,
              update_exercise(db, view, exercise_id, exercise_in, user_id,
                              fault),
              original_error)

ServeCreateWorkout ==
    \E workout_in \in ConcurrentUpdates, user_id \in UserIds,
       fault \in CreateFaults, original_error \in StoreErrors :
        /\ Cardinality(view.workouts) < MaxWorkouts
        /\ Route("create_workout", user_id, NextId(view.workouts),
                 workout_in,
                 create_workout(db, view, workout_in, user_id, fault),
                 original_error)

ServeGetWorkout ==
    \E workout_id \in WorkoutRefs, user_id \in UserIds, fault \in BOOLEAN,
       original_error \in StoreErrors :
        Route("get_workout_by_id", user_id, workout_id, NoRequest,
              read(db, view,
                   get_workout_by_id(view, workout_id, user_id, fault)),
              original_error)

ServeCreateUser ==
    \E user_in \in UserCreates, now \in Clock, fault \in BOOLEAN,
       original_error \in StoreErrors :
        \E named \in violations(view.users, user_in) \cup {"none"} :
            /\ named = "none" <=> violations(view.users, user_in) = {}
            /\ Route("create_user", NULL, NextId(view.users), user_in,
                     create_user(db, view, user_in, now, named, fault),
                     original_error)

(* The caller of a shared session closes it. *)
Close ==
    /\ scope = "shared"
    /\ view' = close(db)
    /\ last' = Idle
    /\ UNCHANGED <<db, scope, inflight>>

(* The catalog and the users its private entries belong to. *)
NextCatalog ==
    \/ GetExercise
    \/ CreateCustomExercise
    \/ UpdateExercise
    \/ DeleteExercise
    \/ DeleteUser

(* The workout aggregate. *)
NextWorkouts ==
    \/ CreateWorkout
    \/ GetWorkout
    \/ UpdateWorkout
    \/ DeleteWorkout

(* Workouts logged and deleted while the exercises they reference and the  *)
(* users that own them are deleted.                                        *)
NextReferences ==
    \/ CreateWorkout
    \/ DeleteWorkout
    \/ DeleteExercise
    \/ DeleteUser

(* Sessions are logged and the analytics read. *)
NextAnalytics ==
    \/ LogSession
    \/ GetPersonalBest
    \/ GetExerciseProgress
    \/ GetWeeklyConsistency

(* Exercises are created, looked up and referenced in new workouts. *)
NextMasking ==
    \/ GetExercise
    \/ CreateCustomExercise
    \/ CreateWorkoutKept

(* A workout is logged and updated by requests that overlap. *)
NextConcurrent ==
    \/ LogWorkout
    \/ BeginUpdate
    \/ CommitUpdate

(* The users' lifecycle as the identity provider reports it. *)
NextLifecycle ==
    \/ ReceiveCreated
    \/ FinishCreated
    \/ Deliver

(* The catalog is extended and listed. *)
NextListing ==
    \/ CreateCustomExercise
    \/ DeleteExercise
    \/ ListExercises

(* A workout is saved and read back. *)
NextRoundTrip ==
    \/ CreateWorkoutKept
    \/ UpdateWorkout
    \/ ReadWorkout

(* Workouts are logged and the history is listed. *)
NextHistory ==
    \/ LogSession
    \/ ListUserWorkouts

(* The routes, with the exception handlers. *)
NextResponses ==
    \/ ServeUpdateExercise
    \/ ServeCreateWorkout
    \/ ServeGetWorkout
    \/ ServeCreateUser

(* A workout is logged and users are deleted. *)
NextOffboarding ==
    \/ LogWorkout
    \/ Deliver

SpecCatalog == Init /\ [][NextCatalog]_vars

SpecListing == Init /\ [][NextListing]_vars

SpecRoundTrip == Init /\ [][NextRoundTrip]_vars

SpecHistory == Init /\ [][NextHistory]_vars

SpecResponses == Init /\ [][NextResponses]_vars

SpecLifecycle == Init /\ [][NextLifecycle]_vars

SpecOffboarding == Init /\ [][NextOffboarding]_vars

SpecConcurrent == Init /\ [][NextConcurrent]_vars

SpecMasking == Init /\ [][NextMasking]_vars

SpecAnalytics == Init /\ [][NextAnalytics]_vars

SpecWorkouts == Init /\ [][NextWorkouts]_vars

SpecReferences == Init /\ [][NextReferences]_vars

SpecShared == InitShared /\ [][NextWorkouts \/ Close]_vars

-----------------------------------------------------------------------------
(* Reading an aggregate back from the store. *)

(* The rows of a set, by ascending id: the order they were added in. *)
RECURSIVE ById(_)
ById(rows) ==
    IF rows = {}
    THEN <<>>
    ELSE LET first == CHOOSE r \in rows : \A q \in rows : r.id <= q.id
         IN  <<first>> \o ById(rows \ {first})

SetData(s) ==
    [weight |-> s.weight, reps |-> s.reps, rpe |-> s.rpe, order |-> s.order]

(* The exercise instances of a workout with their sets, as a request       *)
(* would write them.                                                       *)
Subtree(s, workout_id) ==
    LET instances == ById(Children(s, workout_id))
    IN  [i \in 1..Len(instances) |->
            [exercise_id |-> instances[i].exercise_id,
             sets |-> LET rows == ById(SetsOf(s, {instances[i]}))
                      IN  [j \in 1..Len(rows) |-> SetData(rows[j])]]]

NumSets(exercises) ==
    LET RECURSIVE sum(_)
        sum(i) == IF i > Len(exercises) THEN 0
                  ELSE Len(exercises[i].sets) + sum(i + 1)
    IN  sum(1)

Failed(l) == l.kind \notin {"ok", "none"}

-----------------------------------------------------------------------------
(* C1: create_workout is all-or-nothing. A call that returns adds exactly  *)
(* one Workout row owned by the actor, one WorkoutExercise row per         *)
(* exercise instance of the request and one Set row per set of the         *)
(* request, all under the new workout; a call that fails, wherever in the  *)
(* exercise list the check fails, leaves the committed store as it was.    *)
C1_CreateAllOrNothing ==
    [][last'.op = "create_workout" =>
        IF last'.kind = "ok"
        THEN /\ db'.workouts \ db.workouts =
                    {Workout(last'.target, last'.actor, last'.request.date,
                             last'.request.notes)}
             /\ db.workouts \subseteq db'.workouts
             /\ db.workout_exercises \subseteq db'.workout_exercises
             /\ db.sets \subseteq db'.sets
             /\ Cardinality(db'.workout_exercises \ db.workout_exercises)
                    = Len(last'.request.exercises)
             /\ Cardinality(db'.sets \ db.sets)
                    = NumSets(last'.request.exercises)
             /\ db'.workout_exercises \ db.workout_exercises
                    = Children(db', last'.target)
             /\ db'.sets \ db.sets
                    = SetsOf(db', Children(db', last'.target))
             /\ db'.exercises = db.exercises
             /\ db'.users = db.users
        ELSE db' = db]_vars

(* A create_workout whose second exercise the actor may not use: the       *)
(* workout row and the first exercise instance were pending when it failed. *)
C1_Witness ==
    /\ last.op = "create_workout"
    /\ last.kind = "NotFound"
    /\ last.pos = 2
    /\ last.had_pending

(* C2: update_workout by the owner is all-or-nothing on the committed      *)
(* store. A call that returns leaves the workout with the request's date   *)
(* and notes and with exactly the request's exercise instances and sets,   *)
(* in order, and no other row; a call that fails leaves the committed      *)
(* store, the workout's date, notes and subtree included, as it was.       *)
C2_ReplaceAllOrNothing ==
    [][last'.op = "update_workout" =>
        IF last'.kind = "ok"
        THEN /\ last'.target \in Ids(db.workouts)
             /\ db'.workouts =
                    (db.workouts \ {Row(db.workouts, last'.target)}) \cup
                    {Workout(last'.target, last'.actor, last'.request.date,
                             last'.request.notes)}
             /\ Row(db.workouts, last'.target).user_id = last'.actor
             /\ Subtree(db', last'.target) = last'.request.exercises
             /\ Cardinality(Children(db', last'.target))
                    = Len(last'.request.exercises)
             /\ Cardinality(SetsOf(db', Children(db', last'.target)))
                    = NumSets(last'.request.exercises)
             /\ db'.workout_exercises \ Children(db', last'.target)
                    = db.workout_exercises \ Children(db, last'.target)
             /\ db'.sets \ SetsOf(db', Children(db', last'.target))
                    = db.sets \ SetsOf(db, Children(db, last'.target))
             /\ db'.exercises = db.exercises
             /\ db'.users = db.users
        ELSE db' = db]_vars

(* An update_workout by the owner of a workout that has exercise           *)
(* instances, failing at the second exercise of the request with the new   *)
(* date, notes and first exercise instance pending.                        *)
C2_Witness ==
    /\ last.op = "update_workout"
    /\ last.kind = "NotFound"
    /\ last.pos = 2
    /\ last.had_pending
    /\ last.target \in Ids(db.workouts)
    /\ Children(db, last.target) # {}

(* C3: a mutating call that fails after it has made a pending change has   *)
(* rolled the session back when the error reaches the caller.              *)
MutatingOps ==
    {"create_workout", "update_workout", "delete_workout",
     "create_custom_exercise", "update_exercise", "delete_exercise"}

C3_RollbackBeforeError ==
    (last.op \in MutatingOps /\ Failed(last) /\ last.had_pending)
        => last.rolled_back

(* C4: a NotFound for an exercise out of create_workout or update_workout  *)
(* names an exercise the actor may not use, and the session was rolled     *)
(* back before it reached the caller.                                      *)
Illegible(s, exercise_id, user_id) ==
    \/ exercise_id \notin Ids(s.exercises)
    \/ ~canRead(Row(s.exercises, exercise_id), user_id)

C4_NotFoundAfterRollback ==
    (/\ last.op \in {"create_workout", "update_workout"}
     /\ last.kind = "NotFound"
     /\ last.resource = "Exercise")
        => /\ Illegible(db, last.id, last.actor)
           /\ last.had_pending => last.rolled_back

(* C5: a global exercise is not writable by anyone. update_exercise and    *)
(* delete_exercise on it fail with PermissionDenied and commit nothing,    *)
(* every step leaves its row as it was, and get_exercise_by_id returns it  *)
(* to every actor.                                                         *)
Globals(s) == {e \in s.exercises : e.user_id = NULL}

C5_GlobalExerciseImmutable ==
    [][/\ Globals(db) \subseteq db'.exercises
       /\ (/\ last'.op \in {"update_exercise", "delete_exercise"}
           /\ last'.target \in Ids(Globals(db)))
            => /\ last'.kind = "PermissionDenied"
               /\ ~last'.committed
               /\ db' = db
       /\ (/\ last'.op = "get_exercise_by_id"
           /\ last'.target \in Ids(Globals(db))
           /\ last'.kind # "SystemError")
            => /\ last'.kind = "ok"
               /\ last'.value = Row(db.exercises, last'.target)]_vars

(* An update_exercise on a global exercise, refused. *)
C5_Witness ==
    /\ last.op = "update_exercise"
    /\ last.target \in Ids(Globals(db))
    /\ last.kind = "PermissionDenied"
    /\ last.reason = "System Exercises"

(* C6: for a private exercise and an actor who is not its owner,           *)
(* get_exercise_by_id fails with NotFound, never with PermissionDenied,    *)
(* while update_exercise and delete_exercise fail with PermissionDenied    *)
(* for the reason "Other User's Exercise" and change nothing; for an id    *)
(* with no row the three fail with NotFound.                               *)
CatalogOps == {"get_exercise_by_id", "update_exercise", "delete_exercise"}

C6_PrivateExerciseOfAnother ==
    [][last'.op \in CatalogOps =>
        IF last'.target \notin Ids(db.exercises)
        THEN /\ last'.kind = "NotFound" \/
                    (last'.op = "get_exercise_by_id"
                        /\ last'.kind = "SystemError")
             /\ last'.kind = "NotFound" =>
                    (last'.resource = "Exercise" /\ last'.id = last'.target)
             /\ db' = db
        ELSE LET e == Row(db.exercises, last'.target)
             IN  (e.user_id # NULL /\ e.user_id # last'.actor) =>
                    /\ db' = db
                    /\ last'.op = "get_exercise_by_id" =>
                          /\ last'.kind \in {"NotFound", "SystemError"}
                          /\ last'.kind = "NotFound" =>
                                (last'.resource = "Exercise"
                                    /\ last'.id = last'.target)
                    /\ last'.op # "get_exercise_by_id" =>
                          /\ last'.kind = "PermissionDenied"
                          /\ last'.reason = "Other User's Exercise"
                          /\ last'.reason # "System Exercises"]_vars

(* A get_exercise_by_id on another user's private exercise, masked. *)
C6_Witness ==
    /\ last.op = "get_exercise_by_id"
    /\ last.kind = "NotFound"
    /\ last.target \in Ids(db.exercises)
    /\ Row(db.exercises, last.target).user_id \notin {NULL, last.actor}

(* C7: for a workout and an actor who is not its owner, get_workout_by_id, *)
(* update_workout and delete_workout fail with PermissionDenied, not       *)
(* NotFound, and leave the store as it was; for an id with no row they     *)
(* fail with NotFound and change nothing.                                  *)
WorkoutOps == {"get_workout_by_id", "update_workout", "delete_workout"}

C7_WorkoutOfAnother ==
    [][last'.op \in WorkoutOps =>
        IF last'.target \notin Ids(db.workouts)
        THEN /\ last'.kind \in {"NotFound", "SystemError"}
             /\ last'.kind = "NotFound" =>
                    (last'.resource = "Workout" /\ last'.id = last'.target)
             /\ db' = db
        ELSE Row(db.workouts, last'.target).user_id # last'.actor =>
                /\ last'.kind \in {"PermissionDenied", "SystemError"}
                /\ db' = db]_vars

(* An update_workout by another user on a workout that has exercise        *)
(* instances, refused.                                                     *)
C7_Witness ==
    /\ last.op = "update_workout"
    /\ last.kind = "PermissionDenied"
    /\ last.target \in Ids(db.workouts)
    /\ Row(db.workouts, last.target).user_id # last.actor
    /\ Children(db, last.target) # {}

C9_ReferentialIntegrity ==
    /\ \A w \in db.workouts : w.user_id \in Ids(db.users)
    /\ \A we \in db.workout_exercises :
            /\ we.workout_id \in Ids(db.workouts)
            /\ we.exercise_id \in Ids(db.exercises)
    /\ \A s \in db.sets :
            s.workout_exercise_id \in Ids(db.workout_exercises)

(* C10: a private exercise keeps its owner for as long as it exists, and   *)
(* update_exercise changes only the fields its request carries.            *)
C10_OwnerNeverChanges ==
    [][\A e \in db.exercises : \A f \in db'.exercises :
        (e.id = f.id /\ e.user_id # NULL) =>
            /\ f.user_id = e.user_id
            /\ (last'.op = "update_exercise" /\ last'.kind = "ok"
                    /\ last'.target = e.id) =>
                  /\ f.name = last'.request.name
                  /\ f.category = IF last'.request.category = UNSET
                                  THEN e.category
                                  ELSE last'.request.category]_vars

-----------------------------------------------------------------------------
(* What the analytics are expected to read: the history of an actor for an *)
(* exercise, found from each Set row up to the owner of its workout.       *)

InstanceOf(s, set) == Row(s.workout_exercises, set.workout_exercise_id)

WorkoutOf(s, set) == Row(s.workouts, InstanceOf(s, set).workout_id)

History(s, user_id, exercise_id) ==
    {t \in s.sets :
        /\ InstanceOf(s, t).exercise_id = exercise_id
        /\ WorkoutOf(s, t).user_id = user_id}

(* The actor's workouts in which the exercise has a set. *)
Sessions(s, user_id, exercise_id) ==
    {WorkoutOf(s, t) : t \in History(s, user_id, exercise_id)}

TopWeight(s, workout, exercise_id) ==
    LET weights == {t.weight : t \in
                        {h \in History(s, workout.user_id, exercise_id) :
                            WorkoutOf(s, h) = workout}}
    IN  CHOOSE m \in weights : \A n \in weights : n <= m

AnalyticsOps ==
    {"get_personal_best", "get_exercise_progress", "get_weekly_consistency"}

(* C11: get_exercise_progress returns one (date, top weight) pair per      *)
(* session of the actor with the exercise, oldest first, and when there    *)
(* are more than limit sessions the pairs are those of the limit most      *)
(* recent ones: no session left out is later than a session returned.      *)
C11_ProgressTrailingWindow ==
    (last.op = "get_exercise_progress" /\ last.kind = "ok") =>
        LET sessions == Sessions(db, last.actor, last.target)
            value == last.value
            n == IF Cardinality(sessions) < last.request.limit
                 THEN Cardinality(sessions) ELSE last.request.limit
        IN  /\ Len(value) = n
            /\ \A i, j \in 1..Len(value) :
                    i < j => value[i].date <= value[j].date
            /\ \E kept \in SUBSET sessions :
                /\ Cardinality(kept) = n
                /\ \E f \in [1..n -> kept] :
                    /\ \A i, j \in 1..n : i < j => f[i] # f[j]
                    /\ \A i \in 1..n :
                        value[i] = [date |-> f[i].date,
                                    weight |-> TopWeight(db, f[i],
                                                         last.target)]
                /\ \A out \in sessions \ kept : \A in \in kept :
                        out.date <= in.date

(* C12: get_weekly_consistency returns the number of the actor's workouts  *)
(* dated from seven days before today up to today, both days included.     *)
C12_WeeklyWindow ==
    (last.op = "get_weekly_consistency" /\ last.kind = "ok") =>
        /\ last.value \in Nat
        /\ last.value = Cardinality({w \in db.workouts :
                /\ w.user_id = last.actor
                /\ last.request.today - 7 <= w.date
                /\ w.date <= last.request.today})

(* C13: get_personal_best returns the largest weight in the actor's        *)
(* history for the exercise, and no value, not an error, when the history  *)
(* is empty.                                                               *)
C13_PersonalBestIsMaximum ==
    (last.op = "get_personal_best" /\ last.kind # "SystemError") =>
        LET weights == {t.weight :
                            t \in History(db, last.actor, last.target)}
        IN  /\ last.kind = "ok"
            /\ IF weights = {}
               THEN last.value = NoValue
               ELSE /\ Len(last.value) = 1
                    /\ last.value[1] \in weights
                    /\ \A n \in weights : n <= last.value[1]

(* A personal best of 92 over a history holding 80, 85 and 92. *)
C13_Witness ==
    /\ last.op = "get_personal_best"
    /\ last.value = <<92>>
    /\ {80, 85, 92} \subseteq
            {t.weight : t \in History(db, last.actor, last.target)}

(* C14: the analytics of an actor read only the actor's own rows: each     *)
(* answer is the answer the same call gives on the store with every other  *)
(* user's workouts, exercise instances and sets taken out.                 *)
OwnData(s, user_id) ==
    LET workouts == {w \in s.workouts : w.user_id = user_id}
        instances == {we \in s.workout_exercises :
                        we.workout_id \in Ids(workouts)}
    IN  [s EXCEPT !.workouts = workouts,
                  !.workout_exercises = instances,
                  !.sets = {t \in s.sets :
                                t.workout_exercise_id \in Ids(instances)}]

C14_AnalyticsOwnDataOnly ==
    (last.op \in AnalyticsOps /\ last.kind = "ok") =>
        LET own == OwnData(db, last.actor)
        IN  /\ last.op = "get_personal_best" =>
                last.value = get_personal_best(own, last.actor, last.target,
                                               FALSE).value
            /\ last.op = "get_exercise_progress" =>
                \E ordered \in order_by_date_asc(
                        progress_rows(own, last.actor, last.target)) :
                    last.value =
                        get_exercise_progress(own, last.actor, last.target,
                                              last.request.limit, ordered,
                                              FALSE).value
            /\ last.op = "get_weekly_consistency" =>
                last.value = get_weekly_consistency(own, last.actor,
                                                    last.request.today,
                                                    FALSE).value

(* A personal best of 85 while another user holds a set of 92 for the      *)
(* same exercise.                                                          *)
C14_Witness ==
    /\ last.op = "get_personal_best"
    /\ last.value = <<85>>
    /\ \E t \in db.sets :
        /\ t.weight = 92
        /\ InstanceOf(db, t).exercise_id = last.target
        /\ WorkoutOf(db, t).user_id # last.actor

(* C15: an analytics call changes no table and commits nothing, returns    *)
(* or fails with SystemError and never with NotFound, and for an exercise  *)
(* with no row or with no history of the actor returns no value, the       *)
(* empty list, or zero when the actor has no workout.                      *)
C15_AnalyticsReadOnly ==
    [][last'.op \in AnalyticsOps =>
        /\ db' = db
        /\ view' = view
        /\ ~last'.committed
        /\ ~last'.had_pending
        /\ last'.kind \in {"ok", "SystemError"}
        /\ (/\ last'.kind = "ok"
            /\ last'.op \in {"get_personal_best", "get_exercise_progress"}
            /\ History(db, last'.actor, last'.target) = {})
                => last'.value = <<>>
        /\ (/\ last'.kind = "ok"
            /\ last'.op = "get_weekly_consistency"
            /\ \A w \in db.workouts : w.user_id # last'.actor)
                => last'.value = 0]_vars

(* A personal best asked for an exercise id that has no row, while other   *)
(* workouts are logged.                                                    *)
C15_Witness ==
    /\ last.op = "get_personal_best"
    /\ last.target \notin Ids(db.exercises)
    /\ last.kind = "ok"
    /\ last.value = NoValue
    /\ db.workouts # {}

-----------------------------------------------------------------------------
(* C16: an actor cannot tell another user's private exercise from one that *)
(* does not exist. get_exercise_by_id on it, and create_workout with a     *)
(* request that references it, end as the same call ends on the store      *)
(* with that exercise row taken out: NotFound for an Exercise with the     *)
(* same id, and no row written.                                            *)
PrivateOfAnother(s, exercise_id, user_id) ==
    /\ exercise_id \in Ids(s.exercises)
    /\ Row(s.exercises, exercise_id).user_id \notin {NULL, user_id}

Forget(s, exercise_id) ==
    [s EXCEPT !.exercises = {e \in @ : e.id # exercise_id}]

Outcome(l) ==
    [kind |-> l.kind, resource |-> l.resource, id |-> l.id,
     reason |-> l.reason, pos |-> l.pos, value |-> l.value]

Referenced(workout_in) ==
    {workout_in.exercises[i].exercise_id :
        i \in 1..Len(workout_in.exercises)}

C16_MaskingIndistinguishable ==
    [][/\ (/\ last'.op = "get_exercise_by_id"
           /\ last'.kind # "SystemError"
           /\ PrivateOfAnother(db, last'.target, last'.actor))
            => LET absent == Forget(db, last'.target)
               IN  /\ Outcome(last') =
                        get_exercise_by_id(absent, last'.target,
                                           last'.actor, FALSE)
                   /\ last'.kind = "NotFound"
                   /\ last'.resource = "Exercise"
                   /\ last'.id = last'.target
                   /\ db' = db
       /\ (last'.op = "create_workout" /\ last'.kind # "SystemError")
            => \A x \in Referenced(last'.request) :
                PrivateOfAnother(db, x, last'.actor) =>
                    LET absent == Forget(db, x)
                        there == create_workout(absent, absent,
                                                last'.request, last'.actor,
                                                NoFault)
                    IN  /\ Outcome(last') = there.out
                        /\ last'.kind = "NotFound"
                        /\ last'.resource = "Exercise"
                        /\ there.db = absent
                        /\ db' = db]_vars

(* A create_workout whose second exercise is another user's private        *)
(* exercise, answered NotFound with that exercise's id.                    *)
C16_Witness ==
    /\ last.op = "create_workout"
    /\ last.kind = "NotFound"
    /\ last.pos = 2
    /\ PrivateOfAnother(db, last.id, last.actor)
    /\ last.request # NoRequest

-----------------------------------------------------------------------------
(* C17: of update_workout calls on one workout that overlap and commit,    *)
(* the last to commit wins: when a call has committed, the workout has     *)
(* the date and notes of its request and exactly the exercise instances    *)
(* and sets of its request, none from the other call or from before.       *)
C17_LastCommitWins ==
    [][(last'.op = "update_workout" /\ last'.kind = "ok") =>
        /\ Row(db'.workouts, last'.target) =
                Workout(last'.target, last'.actor, last'.request.date,
                        last'.request.notes)
        /\ Subtree(db', last'.target) = last'.request.exercises
        /\ Cardinality(Children(db', last'.target))
                = Len(last'.request.exercises)]_vars

-----------------------------------------------------------------------------
(* The users of one external identity. *)
UsersOf(d, auth_id) == {u \in d.users : u.auth_id = auth_id}

(* The step is the create_user of a user.created notification. *)
Finishing ==
    \E s \in DOMAIN inflight :
        /\ inflight[s].op = "user.created"
        /\ inflight'[s] = Ended

(* The handler acknowledged with this status. *)
Acknowledged(out, status) == out.kind = "ok" /\ out.value.status = status

(* C18: user.created is idempotent. However often the notification of one  *)
(* external identity is processed, one delivery after the other or two     *)
(* overlapping, there is never more than one User of that identity; a      *)
(* delivery processed when a User of the identity exists leaves the store  *)
(* as it was; and the delivery that succeeds leaves exactly one User of    *)
(* the identity, with the fields of that delivery.                         *)
C18_CreatedIdempotent ==
    [][last'.op = "user.created" =>
        LET event == last'.request
            before == UsersOf(db, event.id)
            after == UsersOf(db', event.id)
        IN  /\ Cardinality(after) <= 1
            /\ before # {} => db' = db
            /\ (Finishing /\ Acknowledged(last', "success")) =>
                /\ before = {}
                /\ \E u \in db'.users :
                    /\ after = {u}
                    /\ db'.users = db.users \cup {u}
                    /\ u.email = event.email_addresses[1].email_address
                    /\ u.username = smart_username(event, u.email)]_vars

(* Two deliveries for one identity overlapped: both found no User, one     *)
(* created it, and the other's create_user was refused by the store and    *)
(* acknowledged with an error, the one User still there.                   *)
C18_Witness ==
    /\ last.op = "user.created"
    /\ Acknowledged(last, "error")
    /\ Len(last.value.detail) = 2
    /\ last.value.detail[1] = "Conflict"
    /\ last.value.detail[2] = <<"Auth ID", last.request.id>>
    /\ Cardinality(UsersOf(db, last.request.id)) = 1

-----------------------------------------------------------------------------
(* The types of the notifications. *)
EventTypes == {e.type : e \in CreatedEvents \cup OtherEvents}

(* C19: a correctly signed notification of any type is always answered     *)
(* with a normal acknowledgement, whatever failed while it was processed:  *)
(* no exception reaches the sender, at most the body carries the status    *)
(* "error".                                                                *)
C19_AlwaysAcknowledged ==
    (last.op \in EventTypes /\ last.request.signed) =>
        /\ last.kind = "ok"
        /\ last.value.status \in {"success", "ok", "error"}

(* A signed notification whose processing raised something that is not an  *)
(* exception of the user service (the first e-mail entry has no            *)
(* "email_address" key) was acknowledged with status "error".              *)
C19_Witness ==
    /\ last.op \in EventTypes
    /\ last.request.signed
    /\ Acknowledged(last, "error")
    /\ Len(last.value.detail) = 2
    /\ last.value.detail[1] = "KeyError"

-----------------------------------------------------------------------------
(* The workouts of a user, and the private exercises of a user. *)
WorkoutsOf(d, user_id) == {w \in d.workouts : w.user_id = user_id}

PrivateExercisesOf(d, user_id) == {e \in d.exercises : e.user_id = user_id}

(* C20: after user.deleted is processed for an existing user, the User     *)
(* row is gone and so is all the user owned: none of the user's workouts,  *)
(* of their exercise instances and sets, and none of the user's private    *)
(* exercises is left in the store, and no other actor sees an exercise     *)
(* that was private to the user.                                           *)
C20_DeleteUserCascades ==
    [][(/\ last'.op = "user.deleted"
        /\ Acknowledged(last', "success")
        /\ UsersOf(db, last'.request.id) # {}) =>
        \A u \in UsersOf(db, last'.request.id) :
            /\ u.id \notin Ids(db'.users)
            /\ \A w \in WorkoutsOf(db, u.id) :
                /\ w.id \notin Ids(db'.workouts)
                /\ \A we \in Children(db, w.id) :
                    /\ we.id \notin Ids(db'.workout_exercises)
                    /\ \A st \in SetsOf(db, {we}) : st.id \notin Ids(db'.sets)
            /\ \A e \in PrivateExercisesOf(db, u.id) :
                /\ e.id \notin Ids(db'.exercises)
                /\ \A other \in UserIds \ {u.id} :
                    get_exercise_by_id(db', e.id, other, FALSE).kind
                        # "ok"]_vars

-----------------------------------------------------------------------------
(* C21: when user.updated is processed for an existing user and carries a  *)
(* username other than the stored one, the stored username is the new one  *)
(* afterwards; when no user has the identity, the store is unchanged and   *)
(* the notification is acknowledged without an error.                      *)
C21_UsernameUpdated ==
    [][(last'.op = "user.updated" /\ last'.request.signed) =>
        LET event == last'.request
            before == UsersOf(db, event.id)
        IN  /\ before = {} =>
                /\ db' = db
                /\ last'.kind = "ok"
            /\ \A u \in before :
                (/\ Acknowledged(last', "success")
                 /\ event.username # NoUsername
                 /\ event.username # u.username) =>
                    \E w \in db'.users :
                        /\ w.id = u.id
                        /\ w.username = event.username]_vars

-----------------------------------------------------------------------------
(* C22: a PermissionDenied raised by a service operation reaches the       *)
(* caller as a 403 response naming the resource and the actor; a NotFound  *)
(* reaches the caller as 404, a Conflict as 409 and a                      *)
(* BusinessRuleViolation as 400.                                           *)
C22_StatusOfEachKind ==
    /\ last.kind = "PermissionDenied" =>
        /\ last.value.status_code = 403
        /\ last.value.message.resource = last.resource
        /\ last.value.message.id = last.actor
    /\ last.kind = "NotFound" => last.value.status_code = 404
    /\ last.kind = "Conflict" => last.value.status_code = 409
    /\ last.kind = "BusinessRule" => last.value.status_code = 400

-----------------------------------------------------------------------------
(* C23: the response for a SystemError is generic: it is the same body     *)
(* whatever the text of the store's error was, and that text is not in it. *)
C23_SystemErrorGeneric ==
    last.kind = "SystemError" =>
        /\ last.value.message.detail \notin StoreErrors
        /\ \A original_error \in StoreErrors :
            last.value =
                app_exception_handler(DatabaseSystemException, original_error)

-----------------------------------------------------------------------------
(* No two users have the same e-mail or the same external identity. *)
UniqueUsers(d) ==
    \A u, w \in d.users :
        (u.email = w.email \/ u.auth_id = w.auth_id) => u = w

(* C26: a create_user whose input repeats the e-mail or the external       *)
(* identity of a user fails with Conflict after a rollback and leaves the  *)
(* users as they were, so no two users ever share an e-mail or an          *)
(* external identity; any other store failure during create_user gives     *)
(* SystemError after a rollback.                                           *)
C26_CreateUserUnique ==
    /\ []UniqueUsers(db)
    /\ [][last'.op = "create_user" =>
            LET repeated == violations(db.users, last'.request)
                                \cap {"email", "auth_id"}
            IN  /\ (repeated # {} /\ last'.kind # "SystemError") =>
                    /\ last'.kind = "Conflict"
                    /\ last'.value.status_code = 409
                    /\ last'.rolled_back
                    /\ db' = db
                /\ last'.kind = "SystemError" =>
                    /\ last'.rolled_back
                    /\ db' = db
                /\ last'.kind \in {"ok", "Conflict", "SystemError"}
                /\ last'.kind = "ok" =>
                    /\ repeated = {}
                    /\ db'.users = db.users \cup {last'.value}]_vars

(* A create_user with the e-mail of a user and a new external identity     *)
(* was refused with Conflict and rolled back.                              *)
C26_Witness ==
    /\ last.op = "create_user"
    /\ last.kind = "Conflict"
    /\ last.rolled_back
    /\ violations(db.users, last.request) = {"email"}

-----------------------------------------------------------------------------
(* The name has the text in it, ignoring case. *)
Contains(name, text) ==
    \E i \in 1..(Len(chars(name)) + 1 - Len(text)) :
        \A j \in 1..Len(text) :
            lower(chars(name)[i + j - 1]) = lower(text[j])

(* C24: list_exercises returns at most limit entries; every one of them is *)
(* global or owned by the actor, never a private exercise of another user, *)
(* and, when a search text is given, has a name that contains the text,    *)
(* ignoring case; a store failure gives SystemError.                       *)
C24_ListExercises ==
    last.op = "list_exercises" =>
        \/ last.kind = "SystemError"
        \/ /\ last.kind = "ok"
           /\ Cardinality(last.value) <= last.request.limit
           /\ \A e \in last.value :
                /\ e \in db.exercises
                /\ e.user_id \in {NULL, last.actor}
                /\ last.request.search_query # NoSearch =>
                        Contains(e.name, last.request.search_query)

-----------------------------------------------------------------------------
(* C25: list_user_workouts returns only workouts of the actor, most recent *)
(* first (dates never increase along the result), without the first        *)
(* offset of them and at most limit of them; it never returns a workout of *)
(* another user.                                                           *)
C25_ListUserWorkouts ==
    (last.op = "list_user_workouts" /\ last.kind = "ok") =>
        LET result == last.value
            own == WorkoutsOf(db, last.actor)
            limit == last.request.limit
            offset == last.request.offset
            rest == IF Cardinality(own) > offset
                    THEN Cardinality(own) - offset ELSE 0
        IN  /\ Len(result) = IF rest < limit THEN rest ELSE limit
            /\ \A i \in DOMAIN result :
                /\ result[i] \in own
                /\ Cardinality({w \in own : w.date > result[i].date})
                        <= offset + i - 1
                /\ Cardinality({w \in own : w.date >= result[i].date})
                        >= offset + i
            /\ \A i, j \in DOMAIN result :
                i < j => /\ result[i] # result[j]
                         /\ result[i].date >= result[j].date

(* The actor has two workouts of different dates and asked for one entry   *)
(* after the first: the older workout is returned.                         *)
C25_Witness ==
    /\ last.op = "list_user_workouts"
    /\ last.kind = "ok"
    /\ last.request = [limit |-> 1, offset |-> 1]
    /\ Len(last.value) = 1
    /\ \E w \in WorkoutsOf(db, last.actor) : w.date > last.value[1].date

-----------------------------------------------------------------------------
(* C27: round trip. A create_workout or update_workout that succeeds       *)
(* stores the input's date, notes, exercise references and sets in input   *)
(* order, and a get_workout_by_id of that workout by its owner yields the  *)
(* workout with that date and notes, its exercise instances in the order   *)
(* they were written and each one's sets in the order they were written,   *)
(* with the same weight, reps, rpe and order.                              *)
C27_RoundTrip ==
    /\ [][(last'.op \in {"create_workout", "update_workout"}
            /\ last'.kind = "ok" /\ last'.request # NoRequest) =>
            /\ Row(db'.workouts, last'.target).date = last'.request.date
            /\ Row(db'.workouts, last'.target).notes = last'.request.notes
            /\ Subtree(db', last'.target) = last'.request.exercises]_vars
    /\ [](last.op = "get_workout_by_id" /\ last.kind = "ok" =>
            /\ last.value.date = Row(db.workouts, last.target).date
            /\ last.value.notes = Row(db.workouts, last.target).notes
            /\ last.value.exercises = Subtree(db, last.target))

-----------------------------------------------------------------------------
-----------------------------------------------------------------------------
(* C29: a workout with no exercises is not saved. A create_workout or      *)
(* update_workout whose input has an empty exercise list is rejected with  *)
(* EmptyWorkoutException and writes no row, and no committed workout is    *)
(* without an exercise instance.                                           *)
C29_NoEmptyWorkout ==
    /\ \A w \in db.workouts : Children(db, w.id) # {}
    /\ (/\ last.op \in {"create_workout", "update_workout"}
        /\ last.request # NoRequest
        /\ last.request.exercises = <<>>) =>
            /\ last.kind = EmptyWorkoutException.kind
            /\ ~last.committed

-----------------------------------------------------------------------------
(* The last call was an update_workout that failed with NotFound for an    *)
(* exercise of its input.                                                  *)
ReplaceFailed(l) ==
    /\ l.op = "update_workout"
    /\ l.kind = "NotFound"
    /\ l.resource = "Exercise"

(* C30: after update_workout has failed with NotFound for an exercise      *)
(* part-way through the rebuild, the session holds no pending change of    *)
(* the failed replacement: what the session sees is what is committed, so  *)
(* a later commit on it persists nothing of the replacement (not the new   *)
(* date or notes, not the cleared exercise list, not the children added    *)
(* before the failure), and a get_workout_by_id of that workout through    *)
(* the same session returns the original date and notes, with the original *)
(* subtree.                                                                *)
C30_FailedReplaceNotPending ==
    /\ [](ReplaceFailed(last) => view = db)
    /\ [][(/\ ReplaceFailed(last)
           /\ last'.op = "get_workout_by_id"
           /\ last'.kind = "ok"
           /\ last'.target = last.target) =>
            /\ last'.value = Row(db.workouts, last.target)
            /\ Subtree(view', last.target) = Subtree(db, last.target)]_vars

=============================================================================
